---- MODULE Spec2Model ----
(***************************************************************************)
(* Model of the nova-mvp voice session: BedrockStreamManager               *)
(* (bedrock_manager.py), AudioStreamer (audio_streamer.py) and main        *)
(* (main.py).  Every asyncio task is a process that moves from one await   *)
(* to the next in one step; the PortAudio capture callback and the         *)
(* executor thread that writes sub-chunks are foreign threads that may run *)
(* at any moment.                                                          *)
(***************************************************************************)
EXTENDS Integers, Sequences, FiniteSets, TLC

\* ------------------------------------------------------------------ bounds
\* inbound audioOutput messages the peer sends in one run
MaxBuf == 2
\* inbound textOutput messages carrying the interruption marker
MaxMarkers == 1
\* capture buffers the device callback delivers in one run
MaxChunks == 3
\* sub-chunks of CHUNK_SIZE bytes in one playback buffer
NumSubChunks == 2
\* further close() calls a caller makes after main's cleanup (SpecApi only)
MaxExtraClose == 1
\* failures (of a transport call, a device call or a constructor) in one run
MaxFaults == 1
\* inbound contentStart, plain textOutput and malformed messages in one run
MaxInbound == 2
\* further start_streaming() / send_audio_content_start_event() calls a caller
\* makes while streaming (SpecApiStart only)
MaxExtraStart == 1

VARIABLES
    \* ---- main coroutine
    mainPc,          \* position of main() / the coroutine it awaits
    inFinally,       \* main() has entered its finally block
    \* ---- BedrockStreamManager
    stream_response, \* TRUE once invoke_model_with_bidirectional_stream returned
    is_active,
    transport,       \* "none", "open", "closed": the stream's input_stream
    transportCloses, \* number of input_stream.close() calls that completed
    wire,            \* events the transport accepted, in order
    initIdx,         \* index into init_events of the next event to send
    initFailed,      \* indices of the init events whose transport send raised
    input_subject,   \* "open", "error", "completed"
    audio_subject,   \* "open", "completed"
    output_subject,  \* "open", "error", "completed"
    respPc,          \* response_task: "none", "recv", "cancelling", "done"
    respExit,        \* why _process_responses left its loop
    barge_in,
    audio_output_queue,
    closePc,         \* close(): "idle", "closing" (awaiting input_stream.close()), "done"
    closeCaller,     \* who invoked the close() that last ran: "none", "stop", "main", "api"
    closeCalls,      \* number of close() invocations
    teardown,        \* teardown events whose transport send close() attempted
    \* ---- AudioStreamer
    audio_streamer,  \* TRUE once AudioStreamer(...) returned
    is_streaming,
    inputOpen,       \* the PortAudio input stream is open
    outputOpen,      \* the PortAudio output stream is open
    playPc,          \* output_task: "none", "check", "flushsleep", "get", "write",
                     \*              "yield", "cancelling", "done"
    curBuf,          \* buffer play_output_audio is writing (0: none)
    curChunk,        \* sub-chunk of curBuf handed to the executor last
    execJob,         \* <<buf, chunk>> write_chunk pending in the executor, or <<>>
    played,          \* <<buf, chunk>> writes the output device accepted, in order
    discarded,       \* buffers a barge-in flush removed from the queue
    flushMark,       \* nextBuf when the first flush was done (0: no flush yet)
    \* ---- environment
    nextBuf,         \* id of the next inbound audioOutput buffer
    markers,         \* interruption markers received so far
    staleAtMarker,   \* buffers enqueued and wholly unwritten when a marker was processed
    nextChunk,       \* id of the next capture buffer
    pendingAudio,    \* process_input_audio coroutines posted to the loop, FIFO
    handleQ,         \* _handle_audio_input tasks created and not yet run, FIFO
    inflight,        \* capture chunks whose transport send is awaiting
    failedChunks,    \* capture chunks whose transport send raised
    capturedAtFail,  \* nextChunk when an audioInput send last raised (0: never)
    eosSeenActive,   \* the dispatcher saw end-of-stream / a receive error while is_active
    faults,          \* failures the environment has injected so far
    \* ---- calls of the public operations
    startCalls,      \* number of start_streaming() invocations
    audioStartCalls, \* number of send_audio_content_start_event() invocations
    stopCalls,       \* number of stop_streaming() invocations
    \* ---- _process_responses: content and text events
    role,            \* "None" or the role of the last contentStart
    display_assistant_text,
    inbound,         \* contentStart, plain textOutput and malformed messages received
    lastStage,       \* generation stage of the last contentStart processed ("none": none yet)
    lastText,        \* <<>> or <<role, display_assistant_text, emitted>> at the last textOutput
    bargeAt,         \* <<>> or <<curBuf, curChunk>> when a marker arrived in mid-buffer
    dropped          \* capture buffers the callback received while not streaming

mgrVars == <<stream_response, is_active, transport, transportCloses, wire, initIdx,
             initFailed, input_subject, audio_subject, output_subject>>
respVars == <<respPc, respExit, barge_in, audio_output_queue, nextBuf, markers,
              staleAtMarker, eosSeenActive>>
closeVars == <<closePc, closeCaller, closeCalls, teardown>>
devVars == <<audio_streamer, is_streaming, inputOpen, outputOpen>>
playVars == <<playPc, curBuf, curChunk, execJob, played, discarded, flushMark>>
capVars == <<nextChunk, pendingAudio, handleQ, inflight, failedChunks, capturedAtFail,
             dropped>>
mainVars == <<mainPc, inFinally>>
apiVars == <<startCalls, audioStartCalls, stopCalls>>
dispVars == <<role, display_assistant_text, inbound, lastStage, lastText, bargeAt>>

vars == <<mainVars, mgrVars, respVars, closeVars, devVars, playVars, capVars, faults,
          apiVars, dispVars>>

\* ------------------------------------------------------------------ events
Ev(k, n) == [kind |-> k, name |-> n, chunk |-> 0]
AudioEv(c) == [kind |-> "audioInput", name |-> "audio", chunk |-> c]

START_SESSION_EVENT == Ev("sessionStart", "none")
START_PROMPT_EVENT == Ev("promptStart", "none")
TEXT_CONTENT_START_EVENT == Ev("contentStart", "text")
TEXT_INPUT_EVENT == Ev("textInput", "text")
TEXT_CONTENT_END_EVENT == Ev("contentEnd", "text")
CONTENT_START_EVENT == Ev("contentStart", "audio")
AUDIO_CONTENT_END_EVENT == Ev("contentEnd", "audio")
PROMPT_END_EVENT == Ev("promptEnd", "none")
SESSION_END_EVENT == Ev("sessionEnd", "none")

\* init_events with session-start and prompt-start exchanged
init_events_swapped ==
    <<START_PROMPT_EVENT, START_SESSION_EVENT, TEXT_CONTENT_START_EVENT,
      TEXT_INPUT_EVENT, TEXT_CONTENT_END_EVENT>>

init_events ==
    <<START_SESSION_EVENT, START_PROMPT_EVENT, TEXT_CONTENT_START_EVENT,
      TEXT_INPUT_EVENT, TEXT_CONTENT_END_EVENT>>

\* ------------------------------------------------------------------ helpers
SeqToSet(s) == {s[i] : i \in 1..Len(s)}

IsPrefix(s, t) == Len(s) <= Len(t) /\ \A i \in 1..Len(s) : s[i] = t[i]

\* The environment injects one more failure.
Fault == faults < MaxFaults /\ faults' = faults + 1

\* The event loop runs one task at a time: while main() is inside a stretch of
\* stop_streaming that has no await, no other task of the loop can run.
LoopFree == mainPc \notin {"stop_input", "stop_output", "stop_terminate", "stop_close"}

\* send_raw_event's first check: it returns without sending when this is FALSE.
SendGuard_unguarded == TRUE

SendGuard == stream_response /\ is_active

\* send_raw_event, the transport accepted the event.
SendRawEventOk(ev) ==
    /\ wire' = Append(wire, ev)
    /\ UNCHANGED <<is_active, input_subject>>

\* A send failure that also deactivates the session.
SendRawEventExcept_deactivate ==
    /\ input_subject' = IF input_subject = "open" THEN "error" ELSE input_subject
    /\ is_active' = FALSE
    /\ UNCHANGED wire

\* send_raw_event, input_stream.send raised: the except clause logs and calls
\* input_subject.on_error; nothing is raised to the caller.
SendRawEventExcept ==
    /\ input_subject' = IF input_subject = "open" THEN "error" ELSE input_subject
    /\ UNCHANGED <<is_active, wire>>

Init ==
    /\ mainPc = "open"
    /\ inFinally = FALSE
    /\ stream_response = FALSE
    /\ is_active = FALSE
    /\ transport = "none"
    /\ transportCloses = 0
    /\ wire = <<>>
    /\ initIdx = 1
    /\ initFailed = {}
    /\ input_subject = "open"
    /\ audio_subject = "open"
    /\ output_subject = "open"
    /\ respPc = "none"
    /\ respExit = "none"
    /\ barge_in = FALSE
    /\ audio_output_queue = <<>>
    /\ closePc = "idle"
    /\ closeCaller = "none"
    /\ closeCalls = 0
    /\ teardown = <<>>
    /\ audio_streamer = FALSE
    /\ is_streaming = FALSE
    /\ inputOpen = FALSE
    /\ outputOpen = FALSE
    /\ playPc = "none"
    /\ curBuf = 0
    /\ curChunk = 0
    /\ execJob = <<>>
    /\ played = <<>>
    /\ discarded = {}
    /\ flushMark = 0
    /\ nextBuf = 1
    /\ markers = 0
    /\ staleAtMarker = {}
    /\ nextChunk = 1
    /\ pendingAudio = <<>>
    /\ handleQ = <<>>
    /\ inflight = {}
    /\ failedChunks = {}
    /\ capturedAtFail = 0
    /\ eosSeenActive = FALSE
    /\ faults = 0
    /\ startCalls = 0
    /\ audioStartCalls = 0
    /\ stopCalls = 0
    /\ role = "None"
    /\ display_assistant_text = FALSE
    /\ inbound = 0
    /\ lastStage = "none"
    /\ lastText = <<>>
    /\ bargeAt = <<>>
    /\ dropped = {}

\* ------------------------------------------------------- initialize_stream
\* invoke_model_with_bidirectional_stream returns: stream_response is set and
\* is_active becomes True before any init event is sent.
InitOpenOk ==
    /\ UNCHANGED <<apiVars, dispVars>>
    /\ UNCHANGED faults
    /\ mainPc = "open"
    /\ stream_response' = TRUE
    /\ is_active' = TRUE
    /\ transport' = "open"
    /\ mainPc' = "init_send"
    /\ UNCHANGED <<inFinally, transportCloses, wire, initIdx, initFailed, input_subject,
                   audio_subject, output_subject>>
    /\ UNCHANGED <<respVars, closeVars, devVars, playVars, capVars>>

\* invoke_model_with_bidirectional_stream raises: the except clause clears
\* is_active and re-raises; main() reports it and goes to its finally block.
InitOpenFail ==
    /\ UNCHANGED <<apiVars, dispVars>>
    /\ mainPc = "open"
    /\ Fault
    /\ is_active' = FALSE
    /\ mainPc' = "finally"
    /\ UNCHANGED <<inFinally, stream_response, transport, transportCloses, wire, initIdx,
                   initFailed, input_subject, audio_subject, output_subject>>
    /\ UNCHANGED <<respVars, closeVars, devVars, playVars, capVars>>

\* One iteration of "for event in init_events: await self.send_raw_event(event)".
InitSend ==
    /\ UNCHANGED <<apiVars, dispVars>>
    /\ mainPc = "init_send"
    /\ initIdx <= Len(init_events)
    /\ IF SendGuard
       THEN \/ /\ SendRawEventOk(init_events[initIdx])
               /\ UNCHANGED <<initFailed, faults>>
            \/ /\ SendRawEventExcept
               /\ initFailed' = initFailed \cup {initIdx}
               /\ Fault
       ELSE UNCHANGED <<wire, is_active, input_subject, initFailed, faults>>
    /\ initIdx' = initIdx + 1
    /\ UNCHANGED <<mainVars, stream_response, transport, transportCloses,
                   audio_subject, output_subject>>
    /\ UNCHANGED <<respVars, closeVars, devVars, playVars, capVars>>

\* InitSend when input_stream.send does not raise.
InitSendAccepted == InitSend /\ UNCHANGED initFailed

\* After the loop: create the response task, subscribe the subjects, return.
InitLaunch ==
    /\ UNCHANGED <<apiVars, dispVars>>
    /\ UNCHANGED faults
    /\ mainPc = "init_send"
    /\ initIdx > Len(init_events)
    /\ respPc' = "recv"
    /\ mainPc' = "ctor"
    /\ UNCHANGED <<inFinally, mgrVars, closeVars, devVars, playVars, capVars>>
    /\ UNCHANGED <<respExit, barge_in, audio_output_queue, nextBuf, markers, staleAtMarker, eosSeenActive>>

\* ------------------------------------------------------------------ close()
\* "if not self.is_active: return" at the top of close().
CloseIsNoop_never == FALSE

CloseIsNoop == ~is_active

\* is_active as the three teardown senders read it: close() has assigned it
\* before it calls them, so they read the new value.
ActiveAfterCloseEntry == is_active'

\* send_audio_content_end_event / send_prompt_end_event / send_session_end_event
\* called with is_active = act: each returns at once when the session is not
\* active, else hands the event to send_raw_event, whose failure is swallowed.
TeardownStep(act, ev, ok) ==
    IF act /\ stream_response
    THEN [att |-> <<ev>>, sent |-> IF ok THEN <<ev>> ELSE <<>>]
    ELSE [att |-> <<>>, sent |-> <<>>]

\* close() from its entry to its only await, input_stream.close().
CloseBody(caller) ==
    /\ closeCalls' = closeCalls + 1
    /\ IF CloseIsNoop
       THEN UNCHANGED <<closePc, closeCaller, teardown, is_active, wire, input_subject,
                        audio_subject, respPc>>
       ELSE \E ok1, ok2, ok3 \in BOOLEAN :
              LET r1 == TeardownStep(ActiveAfterCloseEntry, AUDIO_CONTENT_END_EVENT, ok1)
                  r2 == TeardownStep(ActiveAfterCloseEntry, PROMPT_END_EVENT, ok2)
                  r3 == TeardownStep(ActiveAfterCloseEntry, SESSION_END_EVENT, ok3)
              IN  /\ input_subject' = IF input_subject = "open" THEN "completed"
                                      ELSE input_subject
                  /\ audio_subject' = "completed"
                  /\ is_active' = FALSE
                  /\ respPc' = IF respPc = "recv" THEN "cancelling" ELSE respPc
                  /\ teardown' = r1.att \o r2.att \o r3.att
                  /\ wire' = wire \o r1.sent \o r2.sent \o r3.sent
                  /\ closeCaller' = caller
                  /\ closePc' = IF stream_response THEN "closing" ELSE "done"
    /\ UNCHANGED <<stream_response, transport, transportCloses, initIdx, initFailed,
                   output_subject>>
    /\ UNCHANGED <<respExit, barge_in, audio_output_queue, nextBuf, markers, staleAtMarker, eosSeenActive>>

\* Where main() continues when stop_streaming / close() returns or raises.
AfterStop == IF inFinally THEN "done" ELSE "finally"

\* "await self.stream_response.input_stream.close()" completes; close() returns.
CloseEnd ==
    /\ UNCHANGED <<apiVars, dispVars>>
    /\ UNCHANGED faults
    /\ closePc = "closing"
    /\ transport' = "closed"
    /\ transportCloses' = transportCloses + 1
    /\ closePc' = "done"
    /\ mainPc' = IF closeCaller = "api" THEN mainPc ELSE AfterStop
    /\ UNCHANGED <<inFinally, stream_response, is_active, wire, initIdx, initFailed,
                   input_subject, audio_subject, output_subject,
                   closeCaller, closeCalls, teardown>>
    /\ UNCHANGED <<respVars, devVars, playVars, capVars>>

\* ------------------------------------------------------------ AudioStreamer
\* AudioStreamer(stream_manager): PyAudio() and both p.open calls succeed.
AudioStreamerInitOk ==
    /\ UNCHANGED <<apiVars, dispVars>>
    /\ UNCHANGED faults
    /\ mainPc = "ctor"
    /\ audio_streamer' = TRUE
    /\ inputOpen' = TRUE
    /\ outputOpen' = TRUE
    /\ mainPc' = "start"
    /\ UNCHANGED <<inFinally, is_streaming, mgrVars, respVars, closeVars, playVars, capVars>>

\* The constructor raises: _initialize_audio_streams closes what it opened and
\* re-raises (the input stream stays open if that close itself raised).
AudioStreamerInitFail ==
    /\ UNCHANGED <<apiVars, dispVars>>
    /\ mainPc = "ctor"
    /\ Fault
    /\ inputOpen' \in BOOLEAN
    /\ mainPc' = "finally"
    /\ UNCHANGED <<inFinally, audio_streamer, is_streaming, outputOpen>>
    /\ UNCHANGED <<mgrVars, respVars, closeVars, playVars, capVars>>

\* "if self.is_streaming: return" at the top of start_streaming.
StartIsNoop_never == FALSE

StartIsNoop == is_streaming

\* send_audio_content_start_event: it formats the event and hands it to
\* send_raw_event; it keeps no record of an audio segment that is already open.
SendAudioContentStart ==
    /\ audioStartCalls' = audioStartCalls + 1
    /\ IF SendGuard
       THEN \/ SendRawEventOk(CONTENT_START_EVENT) /\ UNCHANGED faults
            \/ SendRawEventExcept /\ Fault
       ELSE UNCHANGED <<wire, is_active, input_subject, faults>>

\* start_streaming up to its first await: send_audio_content_start_event.
StartSendContentStart ==
    /\ UNCHANGED dispVars
    /\ mainPc = "start"
    /\ LoopFree
    /\ startCalls' = startCalls + 1
    /\ ~StartIsNoop
    /\ SendAudioContentStart
    /\ UNCHANGED stopCalls
    /\ mainPc' = "start_enable"
    /\ UNCHANGED <<inFinally, stream_response, transport, transportCloses, initIdx,
                   initFailed, audio_subject, output_subject>>
    /\ UNCHANGED <<respVars, closeVars, devVars, playVars, capVars>>

\* start_streaming after that await: is_streaming = True, create output_task,
\* then wait for the user's Enter in the executor.
StartStreamingEnable ==
    /\ UNCHANGED <<apiVars, dispVars>>
    /\ UNCHANGED faults
    /\ mainPc = "start_enable"
    /\ is_streaming' = TRUE
    /\ playPc' = "check"
    /\ mainPc' = "wait_input"
    /\ UNCHANGED <<inFinally, audio_streamer, inputOpen, outputOpen>>
    /\ UNCHANGED <<curBuf, curChunk, execJob, played, discarded, flushMark>>
    /\ UNCHANGED <<mgrVars, respVars, closeVars, capVars>>

\* "if not self.is_streaming: return" at the top of stop_streaming.
StopIsNoop_never == FALSE

StopIsNoop == ~is_streaming

\* A stop_streaming that neither clears is_streaming nor cancels output_task.
StopEntry_nothing ==
    /\ mainPc' = "stop_gather"
    /\ UNCHANGED <<is_streaming, playPc>>

\* stop_streaming from its entry to "await asyncio.gather(*tasks)".
StopEntry ==
    /\ is_streaming' = FALSE
    /\ playPc' = IF playPc \in {"none", "done"} THEN playPc ELSE "cancelling"
    /\ mainPc' = "stop_gather"

\* input() returned: start_streaming calls stop_streaming.
StopSignal ==
    /\ UNCHANGED <<startCalls, audioStartCalls, dispVars>>
    /\ stopCalls' = stopCalls + 1
    /\ UNCHANGED faults
    /\ mainPc = "wait_input"
    /\ StopEntry
    /\ UNCHANGED <<inFinally, audio_streamer, inputOpen, outputOpen>>
    /\ UNCHANGED <<curBuf, curChunk, execJob, played, discarded, flushMark>>
    /\ UNCHANGED <<mgrVars, respVars, closeVars, capVars>>

\* The wait for Enter is interrupted (Ctrl-C): main() goes to its finally block.
Interrupt ==
    /\ UNCHANGED <<apiVars, dispVars>>
    /\ UNCHANGED faults
    /\ mainPc = "wait_input"
    /\ mainPc' = "finally"
    /\ UNCHANGED <<inFinally, mgrVars, respVars, closeVars, devVars, playVars, capVars>>

\* gather returns at once, whether or not the cancelled task has ended.
StopAwaitPlayback_nowait ==
    /\ UNCHANGED <<apiVars, dispVars>>
    /\ UNCHANGED faults
    /\ mainPc = "stop_gather"
    /\ mainPc' = "stop_input"
    /\ UNCHANGED <<inFinally, mgrVars, respVars, closeVars, devVars, playVars, capVars>>

\* "await asyncio.gather(*tasks, return_exceptions=True)" returns once the
\* cancelled output_task has ended.
StopAwaitPlayback ==
    /\ UNCHANGED <<apiVars, dispVars>>
    /\ UNCHANGED faults
    /\ mainPc = "stop_gather"
    /\ playPc \in {"none", "done"}
    /\ mainPc' = "stop_input"
    /\ UNCHANGED <<inFinally, mgrVars, respVars, closeVars, devVars, playVars, capVars>>

\* input_stream.stop_stream() / close() inside try/except: a failure is printed
\* and the stream is left as it was.
StopCloseInput ==
    /\ UNCHANGED <<apiVars, dispVars>>
    /\ mainPc = "stop_input"
    /\ \/ inputOpen' = FALSE /\ UNCHANGED faults
       \/ Fault /\ UNCHANGED inputOpen
    /\ mainPc' = "stop_output"
    /\ UNCHANGED <<inFinally, audio_streamer, is_streaming, outputOpen>>
    /\ UNCHANGED <<mgrVars, respVars, closeVars, playVars, capVars>>

\* output_stream.close() inside try/except.
StopCloseOutput ==
    /\ UNCHANGED <<apiVars, dispVars>>
    /\ mainPc = "stop_output"
    /\ \/ outputOpen' = FALSE /\ UNCHANGED faults
       \/ Fault /\ UNCHANGED outputOpen
    /\ mainPc' = "stop_terminate"
    /\ UNCHANGED <<inFinally, audio_streamer, is_streaming, inputOpen>>
    /\ UNCHANGED <<mgrVars, respVars, closeVars, playVars, capVars>>

\* self.p.terminate() returns: PortAudio closes every stream that is still open.
StopTerminateOk ==
    /\ UNCHANGED <<apiVars, dispVars>>
    /\ UNCHANGED faults
    /\ mainPc = "stop_terminate"
    /\ inputOpen' = FALSE
    /\ outputOpen' = FALSE
    /\ mainPc' = "stop_close"
    /\ UNCHANGED <<inFinally, audio_streamer, is_streaming>>
    /\ UNCHANGED <<mgrVars, respVars, closeVars, playVars, capVars>>

\* self.p.terminate() raises: it is outside any try, so stop_streaming raises
\* and stream_manager.close() is not reached.
StopTerminateFail ==
    /\ UNCHANGED <<apiVars, dispVars>>
    /\ mainPc = "stop_terminate"
    /\ Fault
    /\ mainPc' = AfterStop
    /\ UNCHANGED <<inFinally, mgrVars, respVars, closeVars, devVars, playVars, capVars>>

\* "await self.stream_manager.close()" at the end of stop_streaming.
StopCallClose ==
    /\ UNCHANGED <<apiVars, dispVars>>
    /\ UNCHANGED faults
    /\ mainPc = "stop_close"
    /\ CloseBody("stop")
    /\ mainPc' = IF closePc' = "closing" THEN "closing" ELSE AfterStop
    /\ UNCHANGED <<inFinally, devVars, playVars, capVars>>

\* main()'s finally block.
MainFinally ==
    /\ UNCHANGED <<startCalls, audioStartCalls, dispVars>>
    /\ UNCHANGED faults
    /\ mainPc = "finally"
    /\ inFinally' = TRUE
    /\ stopCalls' = IF audio_streamer THEN stopCalls + 1 ELSE stopCalls
    /\ IF audio_streamer
       THEN IF ~StopIsNoop
            THEN /\ StopEntry
                 /\ UNCHANGED <<audio_streamer, inputOpen, outputOpen>>
                 /\ UNCHANGED <<curBuf, curChunk, execJob, played, discarded, flushMark>>
                 /\ UNCHANGED <<mgrVars, respVars, closeVars, capVars>>
            ELSE /\ mainPc' = "done"
                 /\ UNCHANGED <<mgrVars, respVars, closeVars, devVars, playVars, capVars>>
       ELSE IF is_active
            THEN /\ CloseBody("main")
                 /\ mainPc' = IF closePc' = "closing" THEN "closing" ELSE "done"
                 /\ UNCHANGED <<devVars, playVars, capVars>>
            ELSE /\ mainPc' = "done"
                 /\ UNCHANGED <<mgrVars, respVars, closeVars, devVars, playVars, capVars>>

\* ------------------------------------------------------ _process_responses
Unwritten(b) == \A i \in 1..Len(played) : played[i][1] # b

\* Buffers already enqueued of which no sub-chunk has reached the device: the
\* queue's contents and a dequeued buffer whose first write is still pending.
StaleNow ==
    {b \in SeqToSet(audio_output_queue) \cup (IF playPc = "write" THEN {curBuf} ELSE {}) :
        Unwritten(b)}

\* The two print branches of the textOutput handler.
Emits_assistant_always ==
    role = "ASSISTANT" \/ role = "USER"

Emits ==
    (role = "ASSISTANT" /\ display_assistant_text) \/ role = "USER"

\* An inbound textOutput whose content holds the interruption marker: barge_in
\* is set, then the text is printed or not.
DispatchBargeIn ==
    /\ UNCHANGED apiVars
    /\ UNCHANGED faults
    /\ respPc = "recv"
    /\ LoopFree
    /\ markers < MaxMarkers
    /\ markers' = markers + 1
    /\ barge_in' = TRUE
    /\ staleAtMarker' = staleAtMarker \cup StaleNow
    /\ bargeAt' = IF bargeAt = <<>> /\ playPc \in {"write", "yield"}
                  THEN <<curBuf, curChunk>> ELSE bargeAt
    /\ lastText' = <<role, display_assistant_text, Emits>>
    /\ UNCHANGED <<role, display_assistant_text, inbound, lastStage>>
    /\ UNCHANGED <<respPc, respExit, audio_output_queue, nextBuf, eosSeenActive>>
    /\ UNCHANGED <<mainVars, mgrVars, closeVars, devVars, playVars, capVars>>

\* An inbound textOutput without the marker.
DispatchTextOutput ==
    /\ UNCHANGED apiVars
    /\ UNCHANGED faults
    /\ respPc = "recv"
    /\ LoopFree
    /\ inbound < MaxInbound
    /\ inbound' = inbound + 1
    /\ lastText' = <<role, display_assistant_text, Emits>>
    /\ UNCHANGED <<role, display_assistant_text, lastStage, bargeAt>>
    /\ UNCHANGED <<mainVars, mgrVars, respVars, closeVars, devVars, playVars, capVars>>

Roles == {"USER", "ASSISTANT", "TOOL"}

\* What a contentStart says about the generation stage: no additionalModelFields
\* key, a value that is not JSON, generationStage SPECULATIVE, or another stage.
Stages == {"absent", "unparsable", "SPECULATIVE", "FINAL"}

\* display_assistant_text after a contentStart: assigned only when
\* additionalModelFields is present and parses.
DisplayAfter(st) ==
    CASE st = "SPECULATIVE" -> TRUE
      [] st = "FINAL" -> FALSE
      [] OTHER -> display_assistant_text

\* An inbound contentStart that carries a role.
DispatchContentStart ==
    /\ UNCHANGED apiVars
    /\ UNCHANGED faults
    /\ respPc = "recv"
    /\ LoopFree
    /\ inbound < MaxInbound
    /\ inbound' = inbound + 1
    /\ \E r \in Roles, st \in Stages :
         /\ role' = r
         /\ display_assistant_text' = DisplayAfter(st)
         /\ lastStage' = st
    /\ UNCHANGED <<lastText, bargeAt>>
    /\ UNCHANGED <<mainVars, mgrVars, respVars, closeVars, devVars, playVars, capVars>>

\* Messages the handler cannot use: bytes that are not JSON, a contentStart
\* without "role", a textOutput or audioOutput without "content", an audioOutput
\* whose content is not base64.
Malformed == {"notjson", "norole", "nocontent", "badbase64"}

\* An inbound malformed message.  json.JSONDecodeError is caught next to the
\* decode and the loop goes on; KeyError and binascii.Error reach the
\* "except Exception" of the receive, which reports to output_subject and breaks.
DispatchMalformed ==
    /\ UNCHANGED apiVars
    /\ UNCHANGED faults
    /\ respPc = "recv"
    /\ LoopFree
    /\ inbound < MaxInbound
    /\ inbound' = inbound + 1
    /\ \E kind \in Malformed :
         IF kind = "notjson"
         THEN UNCHANGED <<respPc, respExit, output_subject>>
         ELSE /\ respPc' = "done"
              /\ respExit' = "decode"
              /\ output_subject' = IF output_subject = "open" THEN "error"
                                   ELSE output_subject
    /\ UNCHANGED <<role, display_assistant_text, lastStage, lastText, bargeAt>>
    /\ UNCHANGED <<barge_in, audio_output_queue, nextBuf, markers, staleAtMarker,
                   eosSeenActive>>
    /\ UNCHANGED <<stream_response, is_active, transport, transportCloses, wire, initIdx,
                   initFailed, input_subject, audio_subject>>
    /\ UNCHANGED <<mainVars, closeVars, devVars, playVars, capVars>>

\* An inbound audioOutput: decode and put on audio_output_queue (unbounded, so
\* the put does not suspend).
DispatchAudioOutput ==
    /\ UNCHANGED <<apiVars, dispVars>>
    /\ UNCHANGED faults
    /\ respPc = "recv"
    /\ LoopFree
    /\ nextBuf <= MaxBuf
    /\ audio_output_queue' = Append(audio_output_queue, nextBuf)
    /\ nextBuf' = nextBuf + 1
    /\ UNCHANGED <<respPc, respExit, barge_in, markers,
                   staleAtMarker, eosSeenActive>>
    /\ UNCHANGED <<mainVars, mgrVars, closeVars, devVars, playVars, capVars>>

\* The transport ends the stream (StopAsyncIteration) or receive raises: the
\* loop breaks; "finally" completes output_subject when is_active is still set.
\* is_active itself is not assigned.
DispatchStreamEnd ==
    /\ UNCHANGED <<apiVars, dispVars>>
    /\ UNCHANGED faults
    /\ respPc = "recv"
    /\ LoopFree
    /\ \E why \in {"eos", "error"} :
         /\ respExit' = why
         /\ output_subject' = IF why = "error" THEN "error"
                              ELSE IF is_active THEN "completed" ELSE output_subject
    /\ respPc' = "done"
    /\ eosSeenActive' = (eosSeenActive \/ is_active)
    /\ UNCHANGED <<barge_in, audio_output_queue, nextBuf,
                   markers, staleAtMarker>>
    /\ UNCHANGED <<stream_response, is_active, transport, transportCloses, wire, initIdx,
                   initFailed, input_subject, audio_subject>>
    /\ UNCHANGED <<mainVars, closeVars, devVars, playVars, capVars>>

\* response_task.cancel() takes effect at the task's await.
RespCancelled ==
    /\ UNCHANGED <<apiVars, dispVars>>
    /\ UNCHANGED faults
    /\ respPc = "cancelling"
    /\ LoopFree
    /\ respPc' = "done"
    /\ respExit' = "cancelled"
    /\ UNCHANGED <<barge_in, audio_output_queue, nextBuf,
                   markers, staleAtMarker, eosSeenActive>>
    /\ UNCHANGED <<mainVars, mgrVars, closeVars, devVars, playVars, capVars>>

\* -------------------------------------------------------- play_output_audio
\* "self.stream_manager.barge_in = False" after the drain.
FlagAfterFlush_kept == barge_in

FlagAfterFlush == FALSE

\* Top of "while self.is_streaming": the barge-in branch drains the queue and
\* clears the flag with no await in between, then sleeps.
PlayCheck ==
    /\ UNCHANGED <<apiVars, dispVars>>
    /\ UNCHANGED faults
    /\ playPc = "check"
    /\ LoopFree
    /\ IF ~is_streaming
       THEN /\ playPc' = "done"
            /\ UNCHANGED <<barge_in, audio_output_queue, discarded, flushMark>>
       ELSE IF barge_in
            THEN /\ discarded' = discarded \cup SeqToSet(audio_output_queue)
                 /\ audio_output_queue' = <<>>
                 /\ barge_in' = FlagAfterFlush
                 /\ flushMark' = IF flushMark = 0 THEN nextBuf ELSE flushMark
                 /\ playPc' = "flushsleep"
            ELSE /\ playPc' = "get"
                 /\ UNCHANGED <<barge_in, audio_output_queue, discarded, flushMark>>
    /\ UNCHANGED <<curBuf, curChunk, execJob, played>>
    /\ UNCHANGED <<respPc, respExit, nextBuf, markers,
                   staleAtMarker, eosSeenActive>>
    /\ UNCHANGED <<mainVars, mgrVars, closeVars, devVars, capVars>>

\* asyncio.sleep(0.05) after a flush ends; "continue".
PlayFlushWake ==
    /\ UNCHANGED <<apiVars, dispVars>>
    /\ UNCHANGED faults
    /\ playPc = "flushsleep"
    /\ LoopFree
    /\ playPc' = "check"
    /\ UNCHANGED <<curBuf, curChunk, execJob, played, discarded, flushMark>>
    /\ UNCHANGED <<mainVars, mgrVars, respVars, closeVars, devVars, capVars>>

\* The first sub-chunk of buffer b is handed to the executor, if the loop's
\* conditions allow it; otherwise the loop goes back to its top.
BeginBuffer(b) ==
    IF is_streaming /\ outputOpen
    THEN /\ curBuf' = b
         /\ curChunk' = 1
         /\ execJob' = <<b, 1>>
         /\ playPc' = "write"
    ELSE /\ playPc' = "check"
         /\ UNCHANGED <<curBuf, curChunk, execJob>>

\* audio_output_queue.get() on a non-empty asyncio.Queue: the buffer that was
\* put first, and the queue that is left.
QueueGet_newest(q) == [item |-> q[Len(q)], rest |-> SubSeq(q, 1, Len(q) - 1)]

QueueGet(q) == [item |-> Head(q), rest |-> Tail(q)]

\* wait_for(audio_output_queue.get(), 0.1) yields a buffer.
PlayGet ==
    /\ UNCHANGED <<apiVars, dispVars>>
    /\ UNCHANGED faults
    /\ playPc = "get"
    /\ LoopFree
    /\ audio_output_queue # <<>>
    /\ audio_output_queue' = QueueGet(audio_output_queue).rest
    /\ BeginBuffer(QueueGet(audio_output_queue).item)
    /\ UNCHANGED <<played, discarded, flushMark>>
    /\ UNCHANGED <<respPc, respExit, barge_in, nextBuf,
                   markers, staleAtMarker, eosSeenActive>>
    /\ UNCHANGED <<mainVars, mgrVars, closeVars, devVars, capVars>>

\* wait_for times out on an empty queue: TimeoutError, "continue".
PlayTimeout ==
    /\ UNCHANGED <<apiVars, dispVars>>
    /\ UNCHANGED faults
    /\ playPc = "get"
    /\ LoopFree
    /\ audio_output_queue = <<>>
    /\ playPc' = "check"
    /\ UNCHANGED <<curBuf, curChunk, execJob, played, discarded, flushMark>>
    /\ UNCHANGED <<mainVars, mgrVars, respVars, closeVars, devVars, capVars>>

\* The executor thread runs write_chunk: it writes when the output stream is
\* still open, and the awaiting task (if not cancelled) goes on to its sleep.
ExecWrite ==
    /\ UNCHANGED <<apiVars, dispVars>>
    /\ UNCHANGED faults
    /\ execJob # <<>>
    /\ played' = IF outputOpen THEN Append(played, execJob) ELSE played
    /\ execJob' = <<>>
    /\ playPc' = IF playPc = "write" THEN "yield" ELSE playPc
    /\ UNCHANGED <<curBuf, curChunk, discarded, flushMark>>
    /\ UNCHANGED <<mainVars, mgrVars, respVars, closeVars, devVars, capVars>>

\* asyncio.sleep(0.001) ends: next iteration of the sub-chunk loop, which
\* stops when the buffer is done or is_streaming was cleared.
PlayNextChunk ==
    /\ UNCHANGED <<apiVars, dispVars>>
    /\ UNCHANGED faults
    /\ playPc = "yield"
    /\ LoopFree
    /\ IF curChunk < NumSubChunks /\ is_streaming
       THEN /\ curChunk' = curChunk + 1
            /\ execJob' = <<curBuf, curChunk + 1>>
            /\ playPc' = "write"
       ELSE /\ playPc' = "check"
            /\ UNCHANGED <<curChunk, execJob>>
    /\ UNCHANGED <<curBuf, played, discarded, flushMark>>
    /\ UNCHANGED <<mainVars, mgrVars, respVars, closeVars, devVars, capVars>>

\* output_task.cancel() takes effect at the task's await: CancelledError is
\* not an Exception, so it leaves play_output_audio.
PlayCancelled ==
    /\ UNCHANGED <<apiVars, dispVars>>
    /\ UNCHANGED faults
    /\ playPc = "cancelling"
    /\ LoopFree
    /\ playPc' = "done"
    /\ UNCHANGED <<curBuf, curChunk, execJob, played, discarded, flushMark>>
    /\ UNCHANGED <<mainVars, mgrVars, respVars, closeVars, devVars, capVars>>

\* ------------------------------------------------------------------ capture
\* "if self.is_streaming and in_data" in input_callback.
CaptureAccepts_always == TRUE

CaptureAccepts == is_streaming

\* input_callback on the PortAudio thread: posts process_input_audio to the
\* loop when streaming, drops the buffer otherwise; it returns paContinue in
\* both cases.
CaptureCallback ==
    /\ UNCHANGED <<apiVars, dispVars>>
    /\ UNCHANGED faults
    /\ inputOpen
    /\ nextChunk <= MaxChunks
    /\ nextChunk' = nextChunk + 1
    /\ pendingAudio' = IF CaptureAccepts THEN Append(pendingAudio, nextChunk)
                       ELSE pendingAudio
    /\ dropped' = IF is_streaming THEN dropped ELSE dropped \cup {nextChunk}
    /\ UNCHANGED <<handleQ, inflight, failedChunks, capturedAtFail>>
    /\ UNCHANGED <<mainVars, mgrVars, respVars, closeVars, devVars, playVars>>

\* process_input_audio -> add_audio_chunk -> audio_subject.on_next: the
\* subscriber creates a _handle_audio_input task unless the subject is completed.
ProcessInputAudio ==
    /\ UNCHANGED <<apiVars, dispVars>>
    /\ UNCHANGED faults
    /\ pendingAudio # <<>>
    /\ LoopFree
    /\ pendingAudio' = Tail(pendingAudio)
    /\ handleQ' = IF audio_subject = "open" THEN Append(handleQ, Head(pendingAudio))
                  ELSE handleQ
    /\ UNCHANGED <<nextChunk, inflight, failedChunks, capturedAtFail, dropped>>
    /\ UNCHANGED <<mainVars, mgrVars, respVars, closeVars, devVars, playVars>>

\* _handle_audio_input up to "await self.stream_response.input_stream.send".
HandleAudioInput ==
    /\ UNCHANGED <<apiVars, dispVars>>
    /\ UNCHANGED faults
    /\ handleQ # <<>>
    /\ LoopFree
    /\ handleQ' = Tail(handleQ)
    /\ inflight' = IF SendGuard THEN inflight \cup {Head(handleQ)} ELSE inflight
    /\ UNCHANGED <<nextChunk, pendingAudio, failedChunks, capturedAtFail, dropped>>
    /\ UNCHANGED <<mainVars, mgrVars, respVars, closeVars, devVars, playVars>>

\* The transport send of an audioInput event completes or raises.
AudioSendDone ==
    /\ UNCHANGED <<apiVars, dispVars>>
    /\ LoopFree
    /\ \E c \in inflight :
         /\ inflight' = inflight \ {c}
         /\ \/ /\ transport = "open"
               /\ SendRawEventOk(AudioEv(c))
               /\ UNCHANGED <<failedChunks, capturedAtFail, faults>>
            \/ /\ SendRawEventExcept
               /\ failedChunks' = failedChunks \cup {c}
               /\ capturedAtFail' = nextChunk
               /\ IF transport = "open" THEN Fault ELSE UNCHANGED faults
    /\ UNCHANGED <<nextChunk, pendingAudio, handleQ, dropped>>
    /\ UNCHANGED <<stream_response, transport, transportCloses, initIdx, initFailed,
                   audio_subject, output_subject>>
    /\ UNCHANGED <<mainVars, respVars, closeVars, devVars, playVars>>

\* A caller invokes close() once more after main()'s cleanup has finished.
ApiClose ==
    /\ UNCHANGED <<apiVars, dispVars>>
    /\ UNCHANGED faults
    /\ mainPc = "done"
    /\ closePc # "closing"
    /\ closeCalls < 1 + MaxExtraClose
    /\ CloseBody("api")
    /\ UNCHANGED <<mainVars, devVars, playVars, capVars>>

\* A caller invokes send_audio_content_start_event once more while the audio
\* segment that start_streaming opened is still open.
ApiBeginAudioContent ==
    /\ UNCHANGED dispVars
    /\ mainPc = "wait_input"
    /\ LoopFree
    /\ audioStartCalls < 1 + MaxExtraStart
    /\ SendAudioContentStart
    /\ UNCHANGED <<startCalls, stopCalls>>
    /\ UNCHANGED <<stream_response, transport, transportCloses, initIdx,
                   initFailed, audio_subject, output_subject>>
    /\ UNCHANGED <<mainVars, respVars, closeVars, devVars, playVars, capVars>>

\* A caller invokes start_streaming once more while streaming is enabled: the
\* call returns at its first statement (when it does not, it goes on to
\* send_audio_content_start_event, its first await).
ApiStartStreaming ==
    /\ UNCHANGED dispVars
    /\ mainPc = "wait_input"
    /\ is_streaming
    /\ LoopFree
    /\ startCalls < 1 + MaxExtraStart
    /\ startCalls' = startCalls + 1
    /\ IF StartIsNoop
       THEN UNCHANGED <<audioStartCalls, wire, is_active, input_subject, faults>>
       ELSE SendAudioContentStart
    /\ UNCHANGED stopCalls
    /\ UNCHANGED <<stream_response, transport, transportCloses, initIdx,
                   initFailed, audio_subject, output_subject>>
    /\ UNCHANGED <<mainVars, respVars, closeVars, devVars, playVars, capVars>>

\* ------------------------------------------------------------------ claims
TeardownEvents == <<AUDIO_CONTENT_END_EVENT, PROMPT_END_EVENT, SESSION_END_EVENT>>

\* C1: once close() has run on an Active session (it is awaiting, or has
\* finished, the close of the transport) it has attempted to send
\* contentEnd(audioContentName), promptEnd and sessionEnd, in that order.
C1_TeardownAttempted ==
    closePc \in {"closing", "done"} => teardown = TeardownEvents

AllInitSent == initIdx > Len(init_events) /\ initFailed = {}

\* C2: whenever is_active is true all five initialization events have been sent
\* successfully, and the response task exists only after those five successes.
C2_ActiveOnlyAfterInit ==
    /\ is_active => AllInitSent
    /\ respPc # "none" => AllInitSent

\* C3: when the transport send of an init event failed, no later init event is
\* sent, and once start() has ended the session is not active, the transport is
\* closed and the response task was not launched.
C3_InitFailureIsFatal ==
    initFailed # {} =>
        /\ \A i \in initFailed : \A j \in (i + 1)..Len(init_events) :
               init_events[j] \notin SeqToSet(wire)
        /\ mainPc # "init_send" =>
               ~is_active /\ transport = "closed" /\ respPc = "none"

\* Positions of the contentEnd events for name n that follow the contentStart
\* at position i before any further contentStart for n.
EndsAfter(n, i) ==
    {j \in (i + 1)..Len(wire) :
        /\ wire[j] = Ev("contentEnd", n)
        /\ \A m \in (i + 1)..(j - 1) : wire[m] # Ev("contentStart", n)}

\* C4: for the text and the audio content name alike, a contentStart on the wire
\* is followed by at most one contentEnd for its name, no second contentStart
\* for that name comes before that contentEnd, and in a run that went from
\* start() through close() it is followed by exactly one.
C4_ContentSegmentsClosed ==
    \A n \in {"text", "audio"} : \A i \in 1..Len(wire) :
        wire[i] = Ev("contentStart", n) =>
            /\ Cardinality(EndsAfter(n, i)) <= 1
            /\ \A m \in (i + 1)..Len(wire) :
                   wire[m] = Ev("contentStart", n) => EndsAfter(n, i) # {}
            /\ (mainPc = "done" /\ closePc = "done") =>
                   Cardinality(EndsAfter(n, i)) = 1

ExpectedInit ==
    <<[kind |-> "sessionStart", name |-> "none", chunk |-> 0],
      [kind |-> "promptStart", name |-> "none", chunk |-> 0],
      [kind |-> "contentStart", name |-> "text", chunk |-> 0],
      [kind |-> "textInput", name |-> "text", chunk |-> 0],
      [kind |-> "contentEnd", name |-> "text", chunk |-> 0]>>

\* C5: as long as no init send has failed, the wire holds sessionStart,
\* promptStart, contentStart(TEXT), textInput, contentEnd(text) in that order
\* as its first events: a prefix of them while start() runs, all five once it
\* has returned, and every other outbound event only after the fifth.
C5_InitSequence ==
    initFailed = {} =>
        /\ mainPc = "open" => wire = <<>>
        /\ mainPc = "init_send" => wire = SubSeq(ExpectedInit, 1, initIdx - 1)
        /\ (mainPc \notin {"open", "init_send"} /\ stream_response) =>
               IsPrefix(ExpectedInit, wire)

\* C5 witness: all five init sends succeeded and the audio contentStart and an
\* audioInput event followed them.
C5_Witness ==
    /\ initFailed = {}
    /\ Len(wire) > 6
    /\ wire[6] = CONTENT_START_EVENT
    /\ wire[7].kind = "audioInput"

\* C6: with a single interruption marker, no buffer that was enqueued and wholly
\* unwritten when the dispatcher processed the marker is written to the device
\* afterwards, and no buffer enqueued after the flush is discarded.
C6_BargeInDiscardsStale ==
    /\ \A b \in staleAtMarker : Unwritten(b)
    /\ (markers <= 1 /\ flushMark > 0) => \A b \in discarded : b < flushMark

\* C7: a close() call on a session whose close() has already completed changes
\* nothing: no field, no wire event, no second close of the transport.
C7_SecondCloseIsNoop ==
    [][(closeCalls' = closeCalls + 1 /\ closePc = "done") =>
          UNCHANGED <<mainVars, mgrVars, respVars, closePc, closeCaller, teardown,
                      devVars, playVars, capVars>>]_vars

\* C7 witness: close() has been called twice and the transport was closed once.
C7_Witness ==
    closePc = "done" /\ closeCalls = 2 /\ transportCloses = 1 /\ closeCaller # "api"

\* C8: once the dispatcher has left its loop on end-of-stream or a receive error
\* seen while the session was active, is_active is false.
C8_StreamEndDeactivates ==
    (respExit \in {"eos", "error"} /\ eosSeenActive) => ~is_active

\* C9: the step in which the transport send of an audioInput event fails leaves
\* is_active, the audio subject, the transport, the response task and close()
\* as they were; so while close() has not been called the session stays active
\* and the audio path open after such a failure.
C9_SendFailureKeepsSession ==
    /\ [][failedChunks' # failedChunks =>
             UNCHANGED <<is_active, stream_response, audio_subject, transport,
                         respPc, closePc, closeCalls>>]_vars
    /\ []((failedChunks # {} /\ closeCalls = 0) =>
             (is_active /\ audio_subject = "open" /\ transport = "open"))

\* C9 witness: an audioInput send failed, the session is still active, and a
\* buffer captured after that failure was sent as the last event on the wire.
C9_Witness ==
    /\ capturedAtFail > 0
    /\ is_active
    /\ Len(wire) > 0
    /\ wire[Len(wire)].kind = "audioInput"
    /\ wire[Len(wire)].chunk >= capturedAtFail

StopSteps == {"stop_gather", "stop_input", "stop_output", "stop_terminate", "stop_close"}

\* C10: stop_streaming first clears is_streaming, then has the playback task
\* ended, then has both device streams closed, and calls close() only then:
\* close() invoked by stop_streaming never runs while the playback task is alive
\* or a device stream is open, and not before stop_streaming reaches its end.
C10_StopOrder ==
    /\ mainPc \in StopSteps => ~is_streaming /\ closeCalls = 0
    /\ mainPc \in StopSteps \ {"stop_gather"} => playPc \in {"none", "done"}
    /\ mainPc = "stop_close" => ~inputOpen /\ ~outputOpen
    /\ (closeCaller = "stop" /\ closePc \in {"closing", "done"}) =>
           /\ ~is_streaming
           /\ playPc \in {"none", "done"}
           /\ ~inputOpen /\ ~outputOpen

\* C10 witness: close() called by stop_streaming is awaiting the transport after
\* the playback task was cancelled in the middle of a buffer.
C10_Witness ==
    /\ closeCaller = "stop"
    /\ closePc = "closing"
    /\ playPc = "done"
    /\ curBuf # 0
    /\ curChunk < NumSubChunks
    /\ played # <<>>

\* C11: a second send_audio_content_start_event with no contentEnd for the
\* audio content name in between puts no second contentStart(AUDIO) on the
\* wire: any two audio contentStart events on the wire have an audio contentEnd
\* between them.
C11_NoSecondAudioStart ==
    \A i \in 1..Len(wire) : \A m \in (i + 1)..Len(wire) :
        (wire[i] = CONTENT_START_EVENT /\ wire[m] = CONTENT_START_EVENT) =>
            \E j \in (i + 1)..(m - 1) : wire[j] = AUDIO_CONTENT_END_EVENT

\* Everything but the count of start_streaming calls.
AllButStartCalls ==
    <<mainVars, mgrVars, respVars, closeVars, devVars, playVars, capVars, faults,
      audioStartCalls, stopCalls, dispVars>>

\* Everything a stop_streaming call may touch, but main()'s own position and the
\* count of stop_streaming calls.
AllButMainAndStopCalls ==
    <<mgrVars, respVars, closeVars, devVars, playVars, capVars, faults,
      startCalls, audioStartCalls, dispVars>>

\* C12: a start_streaming call made while streaming, and a stop_streaming call
\* made while not streaming, change nothing (no wire event, no task started or
\* cancelled, no device stream closed, no close() call, and stop_streaming
\* returns without entering any of its steps); and once stop_streaming
\* has been called twice the transport has been closed at most once and close()
\* was invoked by stop_streaming at most once.
C12_StartStopNoops ==
    /\ [][(startCalls' # startCalls /\ is_streaming) => UNCHANGED AllButStartCalls]_vars
    /\ [][(stopCalls' # stopCalls /\ ~is_streaming) =>
             (mainPc' \notin StopSteps /\ UNCHANGED AllButMainAndStopCalls)]_vars
    /\ [](stopCalls >= 2 => transportCloses <= 1)

\* C12 witness: start_streaming was called again while streaming, stop_streaming
\* ran to its end and main()'s cleanup called it again; the device streams and
\* the transport were closed once.
C12_Witness ==
    /\ mainPc = "done"
    /\ startCalls = 2
    /\ stopCalls = 2
    /\ closeCalls = 1
    /\ closeCaller = "stop"
    /\ transportCloses = 1
    /\ ~inputOpen /\ ~outputOpen

\* C13: when main()'s cleanup has completed on a session that had become
\* active, the transport is closed, the session is not active and the device
\* streams of a constructed AudioStreamer are closed, whatever step failed.
C13_ShutdownReleases ==
    (mainPc = "done" /\ stream_response) =>
        /\ transport = "closed"
        /\ ~is_active
        /\ audio_streamer => (~inputOpen /\ ~outputOpen)

\* C14: the dispatcher loop ends only on end-of-stream, a receive error or the
\* close of the session; a message that cannot be decoded does not end it.
C14_DecodeFailureSkipped ==
    respPc = "done" => respExit \in {"eos", "error", "cancelled"}

\* C15: after a contentStart has been processed, display_assistant_text is true
\* exactly when the last contentStart carried the speculative generation stage.
C15_DisplayFollowsStage ==
    lastStage # "none" => (display_assistant_text <=> (lastStage = "SPECULATIVE"))

\* C16: a textOutput is emitted exactly when the role recorded from the last
\* contentStart is ASSISTANT with display_assistant_text set, or is USER (so
\* never before a contentStart was seen); and every step that receives the
\* interruption marker leaves barge_in set, whether the text was emitted or not.
C16_TextEmission ==
    /\ [](lastText # <<>> =>
            (lastText[3] <=> \/ (lastText[1] = "ASSISTANT" /\ lastText[2])
                             \/ lastText[1] = "USER"))
    /\ [][markers' # markers => barge_in']_vars

\* C16 witness: an ASSISTANT text carrying the marker was suppressed, because
\* display_assistant_text was off, and barge_in is set.
C16_Witness ==
    /\ markers = 1
    /\ barge_in
    /\ lastText = <<"ASSISTANT", FALSE, FALSE>>
    /\ lastStage = "FINAL"

\* Capture buffers that are, or were, on their way to the transport.
Scheduled ==
    SeqToSet(pendingAudio) \cup SeqToSet(handleQ) \cup inflight \cup failedChunks
        \cup {wire[i].chunk : i \in {j \in 1..Len(wire) : wire[j].kind = "audioInput"}}

\* C17: a capture buffer the callback received while is_streaming was false has
\* scheduled nothing and is never sent as an audioInput event; the callback
\* leaves the input stream running (it returns the continue status), and the
\* step in which an audioInput send fails is not a step of the callback and
\* does not touch the capture stream.
C17_CaptureDropsWhenNotStreaming ==
    /\ [](dropped \cap Scheduled = {})
    /\ [][nextChunk' # nextChunk => UNCHANGED inputOpen]_vars
    /\ [][failedChunks' # failedChunks =>
             UNCHANGED <<nextChunk, pendingAudio, dropped, inputOpen>>]_vars

\* C17 witness: one buffer was dropped before streaming was enabled, a later one
\* was sent as audioInput, and a third was dropped after stop_streaming had
\* cleared is_streaming.
C17_Witness ==
    /\ mainPc \in StopSteps
    /\ \E a, c \in dropped : \E i \in 1..Len(wire) :
         /\ wire[i].kind = "audioInput"
         /\ a < wire[i].chunk
         /\ wire[i].chunk < c

\* C18: the flag is cleared only by the playback loop, in the very step that
\* reads it as set, and that step leaves the queue empty and contains no
\* dispatcher action; the flag is set only by the dispatcher, on a marker; and
\* every drain (every step that discards buffers or enters the sleep after a
\* flush) clears the flag it observed, so one setting causes one drain.
C18_FlushAtomic ==
    /\ [][(barge_in /\ ~barge_in') =>
             /\ playPc = "check" /\ playPc' = "flushsleep"
             /\ audio_output_queue' = <<>>
             /\ UNCHANGED <<nextBuf, markers, respPc>>]_vars
    /\ [][(~barge_in /\ barge_in') => (respPc = "recv" /\ markers' = markers + 1)]_vars
    /\ [][(discarded' # discarded \/ (playPc # "flushsleep" /\ playPc' = "flushsleep")) =>
             (barge_in /\ ~barge_in')]_vars

\* C18 witness: a flush has just discarded a queued buffer and cleared the flag
\* while the dispatcher is still receiving.
C18_Witness ==
    /\ playPc = "flushsleep"
    /\ discarded # {}
    /\ ~barge_in
    /\ audio_output_queue = <<>>
    /\ respPc = "recv"
    /\ nextBuf <= MaxBuf

\* C19: when the marker is processed while the playback loop is writing a
\* buffer in sub-chunks, no sub-chunk of that buffer beyond the one handed to
\* the device at that moment is written.
C19_BargeInWithinOneSubChunk ==
    bargeAt # <<>> =>
        \A i \in 1..Len(played) :
            played[i][1] = bargeAt[1] => played[i][2] <= bargeAt[2]

\* stop_streaming has been entered on a pipeline whose playback task exists.
Stopped == playPc # "none" /\ (~is_streaming \/ mainPc \in StopSteps)

\* C20: once stop_streaming has marked streaming disabled this stays so, no
\* sub-chunk write is handed to the executor any more, the only write the device
\* can still accept is the one that was pending, and no buffer is taken from
\* the queue.
C20_StopWithinOneSubChunk ==
    [][Stopped =>
         /\ Stopped'
         /\ execJob' \in {execJob, <<>>}
         /\ played' # played => (execJob # <<>> /\ played' = Append(played, execJob))
         /\ UNCHANGED <<curBuf, curChunk>>
         /\ IsPrefix(audio_output_queue, audio_output_queue')]_vars

\* C20 witness: stop_streaming was called in the middle of a buffer; the
\* playback task has ended while its last sub-chunk write is still pending in
\* the executor and a further buffer waits in the queue.
C20_Witness ==
    /\ ~is_streaming
    /\ playPc = "done"
    /\ execJob = <<curBuf, curChunk>>
    /\ curChunk < NumSubChunks
    /\ audio_output_queue # <<>>

\* C21: once the output device stream has been closed no sub-chunk write is
\* pending in the executor, and once the transport has been closed no send is
\* pending against it.
C21_NoUseAfterRelease ==
    /\ (audio_streamer /\ ~outputOpen) => execJob = <<>>
    /\ transport = "closed" => inflight = {}

\* C22: at most one transport send is in progress at any moment.
C22_SendsSerialized ==
    Cardinality(inflight) <= 1

\* The chunk numbers of the audioInput events on the wire, in wire order.
RECURSIVE AudioChunksOf(_)
AudioChunksOf(w) ==
    IF w = <<>> THEN <<>>
    ELSE IF Head(w).kind = "audioInput"
         THEN <<Head(w).chunk>> \o AudioChunksOf(Tail(w))
         ELSE AudioChunksOf(Tail(w))

C24_PlayedInEnqueueOrder ==
    /\ \A i, j \in 1..Len(played) :
           i < j => \/ played[i][1] < played[j][1]
                    \/ /\ played[i][1] = played[j][1]
                       /\ played[i][2] < played[j][2]
    /\ \A i \in 1..Len(played) :
           /\ played[i][1] \in 1..(nextBuf - 1)
           /\ played[i][1] \notin discarded

\* Two buffers have been enqueued and both have been written in full.
C24_Witness ==
    /\ Len(played) = 2 * NumSubChunks
    /\ played[1][1] = 1
    /\ played[Len(played)][1] = 2

\* C26: once close() has begun on the active session no audioInput send is
\* started any more (the set of sends in progress only shrinks), an audioInput
\* event that still reaches the wire belongs to a send that was already in
\* progress, and a failure is reported only for such a send: a buffer whose
\* processing runs after close() began is dropped without a send and without
\* an error.
C26_NoAudioSendAfterClose ==
    [][closePc # "idle" =>
          /\ inflight' \subseteq inflight
          /\ \A c \in 1..MaxChunks + 1 :
                 (AudioEv(c) \in SeqToSet(wire') \ SeqToSet(wire)) => c \in inflight
          /\ failedChunks' \ failedChunks \subseteq inflight
          /\ UNCHANGED input_subject]_vars

\* close() has begun and a buffer the callback had accepted has left the
\* event loop without a send and without an error.
C26_Witness ==
    /\ closePc # "idle"
    /\ \E c \in 1..(nextChunk - 1) : c \notin dropped /\ c \notin Scheduled

NextMainAfterInit ==
    \/ InitOpenOk
    \/ InitOpenFail
    \/ InitLaunch
    \/ AudioStreamerInitOk
    \/ AudioStreamerInitFail
    \/ StartSendContentStart
    \/ StartStreamingEnable
    \/ StopSignal
    \/ Interrupt
    \/ StopAwaitPlayback
    \/ StopCloseInput
    \/ StopCloseOutput
    \/ StopTerminateOk
    \/ StopTerminateFail
    \/ StopCallClose
    \/ CloseEnd
    \/ MainFinally

NextMain == InitSend \/ NextMainAfterInit

\* main() when the transport accepts every init event.
NextMainInitAccepted == InitSendAccepted \/ NextMainAfterInit

\* The response task and the playback task when the peer sends no audio and no
\* interruption marker: the queue stays empty, every wait_for times out.
NextIdleTasks ==
    \/ DispatchStreamEnd
    \/ RespCancelled
    \/ PlayCheck
    \/ PlayTimeout
    \/ PlayCancelled

\* Inbound audio, barge-in and the playback of buffers.
NextPlayback ==
    \/ DispatchBargeIn
    \/ DispatchAudioOutput
    \/ PlayFlushWake
    \/ PlayGet
    \/ ExecWrite
    \/ PlayNextChunk

\* Inbound content, text and malformed messages.
NextDispatch ==
    \/ DispatchContentStart
    \/ DispatchTextOutput
    \/ DispatchMalformed

\* The capture callback and the tasks it starts.
NextCapture ==
    \/ CaptureCallback
    \/ ProcessInputAudio
    \/ HandleAudioInput
    \/ AudioSendDone

\* Further calls of start_streaming() and send_audio_content_start_event() by
\* a caller other than main().
NextApiStart ==
    \/ ApiBeginAudioContent
    \/ ApiStartStreaming

Next == NextMain \/ NextIdleTasks \/ NextPlayback \/ NextCapture \/ NextDispatch

\* The whole program.
Spec == Init /\ [][Next]_vars

\* The runs in which the transport accepts every init event and the device
\* delivers no capture buffer.  The capture tasks
\* and the playback side share no variable but those main() and close() write,
\* so the playback claims are settled here.
SpecPlayback == Init /\ [][NextMainInitAccepted \/ NextIdleTasks \/ NextPlayback]_vars

\* The runs in which the peer sends no audio and no interruption marker.
SpecCapture == Init /\ [][NextMain \/ NextIdleTasks \/ NextCapture]_vars

\* The runs in which the transport accepts every init event and the peer sends
\* content, text and malformed messages, with or without the interruption
\* marker, and no audio.
SpecDispatch ==
    Init /\ [][NextMainInitAccepted \/ NextIdleTasks \/ NextDispatch \/ DispatchBargeIn
                 \/ PlayFlushWake]_vars

\* The runs of SpecCapture in which the transport accepts every init event,
\* followed by a caller that calls close() again.
SpecApi ==
    Init /\ [][NextMainInitAccepted \/ NextIdleTasks \/ NextCapture \/ ApiClose]_vars

\* What the event loop and the devices guarantee once stop_streaming runs: a
\* cancelled task gets its CancelledError at the await it is suspended in, the
\* gather resumes once the task has ended, the synchronous device calls of
\* stop_streaming return or raise, and the transport's close() completes.
StopFairness ==
    /\ WF_vars(PlayCancelled)
    /\ WF_vars(RespCancelled)
    /\ WF_vars(StopAwaitPlayback)
    /\ WF_vars(StopCloseInput)
    /\ WF_vars(StopCloseOutput)
    /\ WF_vars(StopTerminateOk \/ StopTerminateFail)
    /\ WF_vars(StopCallClose)
    /\ WF_vars(CloseEnd)

\* The runs of SpecPlayback under StopFairness.
SpecStopLive ==
    Init /\ [][NextMainInitAccepted \/ NextIdleTasks \/ NextPlayback]_vars /\ StopFairness

\* The runs in which the transport accepts every init event, the peer and the
\* device are silent, and a caller calls start_streaming() or
\* send_audio_content_start_event() again while main() waits for Enter.
SpecApiStart == Init /\ [][NextMainInitAccepted \/ NextIdleTasks \/ NextApiStart]_vars
====
